---- MODULE Spec2Model ----
(***************************************************************************)
(* Debate session engine of Codamaze/DebateSimulator.                      *)
(*                                                                         *)
(*   backend/debate_logic.py  DebateState: phase order, advance_phase,     *)
(*                            speaker rule, transcript log                 *)
(*   backend/llms_logic.py    build_messages (crossfire scan),             *)
(*                            generate_ai_speech, generate_judging_feedback*)
(*   backend/main.py          start_debate, debate_socket (coordinator)    *)
(*                                                                         *)
(* One session object is followed from its construction in start_debate.   *)
(* A handler is split where it awaits the language model: the event step   *)
(* runs the code up to the first model request, the model steps are the    *)
(* primary and the fallback attempt, and Resume runs the code that follows *)
(* the awaited call.  Texts are sequences of one-character strings.        *)
(***************************************************************************)
EXTENDS Integers, Sequences, FiniteSets, TLC

VARIABLES
    state,      \* the DebateState held in debate_session["state"]
    pc,         \* position of the handler that is running
    call,       \* the generate_ai_speech / generate_judging_feedback call
    event,      \* type of the coordinator event being handled (or of
                \* the one handled last)
    advances,   \* advance_phase() applications counted while DebateState
                \* is driven on its own
    turns,      \* speech events accepted so far
    failures    \* calls so far in which both model attempts failed

vars == <<state, pc, call, event, advances, turns, failures>>

(***************************************************************************)
(* Bounds of the model                                                     *)
(***************************************************************************)
MaxTranscript == 4      \* entries the transcript may hold
MaxUserTurns == 2       \* speech events the client submits
MaxAdvances == 13       \* advance_phase() applications that are counted
MaxFailures == 1        \* calls in which both model attempts fail
MaxLog == 1             \* entries logged when DebateState is driven alone
MaxCrossfire == 6       \* transcript entries when only crossfire turns are taken
MaxEntries == 7         \* transcript entries a context is built from
MaxText == 230          \* characters of a long speech
MaxMargin == 3          \* characters a summarised text is away from a limit
MaxPrefix == 2          \* turns, and entries, before only end_phase events come
MaxEndPhases == 12      \* end_phase events delivered in a row

(***************************************************************************)
(* backend/debate_logic.py                                                 *)
(***************************************************************************)
DebatePhase ==
    { "PRO_CONSTRUCTIVE", "CON_CONSTRUCTIVE", "CROSSFIRE_1_QA",
      "PRO_REBUTTAL", "CON_REBUTTAL", "CROSSFIRE_2_QA",
      "PRO_SUMMARY", "CON_SUMMARY", "FINAL_FOCUS_PRO", "FINAL_FOCUS_CON",
      "JUDGING_PHASE", "COMPLETED" }

phase_order(user_role) ==
    IF user_role = "pro"
    THEN << "PRO_CONSTRUCTIVE", "CON_CONSTRUCTIVE", "CROSSFIRE_1_QA",
            "PRO_REBUTTAL", "CON_REBUTTAL", "CROSSFIRE_2_QA",
            "PRO_SUMMARY", "CON_SUMMARY", "FINAL_FOCUS_PRO",
            "FINAL_FOCUS_CON", "JUDGING_PHASE", "COMPLETED" >>
    ELSE << "CON_CONSTRUCTIVE", "PRO_CONSTRUCTIVE", "CROSSFIRE_1_QA",
            "CON_REBUTTAL", "PRO_REBUTTAL", "CROSSFIRE_2_QA",
            "CON_SUMMARY", "PRO_SUMMARY", "FINAL_FOCUS_CON",
            "FINAL_FOCUS_PRO", "JUDGING_PHASE", "COMPLETED" >>

\* list.index: the 0-based position of a phase in the order
index_of(order, phase) ==
    (CHOOSE i \in 1..Len(order) : order[i] = phase) - 1

PRO_PHASES ==
    { "PRO_CONSTRUCTIVE", "PRO_REBUTTAL", "PRO_SUMMARY", "FINAL_FOCUS_PRO" }

CON_PHASES ==
    { "CON_CONSTRUCTIVE", "CON_REBUTTAL", "CON_SUMMARY", "FINAL_FOCUS_CON" }

\* "PRO" in phase.name / "CON" in phase.name
get_role_from_phase(phase) ==
    IF phase \in PRO_PHASES THEN "pro"
    ELSE IF phase \in CON_PHASES THEN "con"
    ELSE "None"

\* "CROSSFIRE" in self.current_phase.name
is_crossfire_phase(s) ==
    s.current_phase \in { "CROSSFIRE_1_QA", "CROSSFIRE_2_QA" }

\* _set_speaker_by_phase with the CON branch comparing against "pro"
set_speaker_con_as_pro(s) ==
    IF s.current_phase \in PRO_PHASES
    THEN [s EXCEPT !.current_speaker =
                       IF s.user_role = "pro" THEN "user" ELSE "ai"]
    ELSE IF s.current_phase \in CON_PHASES
    THEN [s EXCEPT !.current_speaker =
                       IF s.user_role = "pro" THEN "user" ELSE "ai"]
    ELSE IF is_crossfire_phase(s)
    THEN [s EXCEPT !.current_speaker =
                       IF s.current_speaker = "ai" THEN "user" ELSE "ai"]
    ELSE IF s.current_phase = "JUDGING_PHASE"
    THEN [s EXCEPT !.current_speaker = "ai"]
    ELSE s

_set_speaker_by_phase(s) ==
    IF s.current_phase \in PRO_PHASES
    THEN [s EXCEPT !.current_speaker =
                       IF s.user_role = "pro" THEN "user" ELSE "ai"]
    ELSE IF s.current_phase \in CON_PHASES
    THEN [s EXCEPT !.current_speaker =
                       IF s.user_role = "con" THEN "user" ELSE "ai"]
    ELSE IF is_crossfire_phase(s)
    THEN [s EXCEPT !.current_speaker =
                       IF s.current_speaker = "ai" THEN "user" ELSE "ai"]
    ELSE IF s.current_phase = "JUDGING_PHASE"
    THEN [s EXCEPT !.current_speaker = "ai"]
    ELSE s

\* advance_phase wrapping around at the end of the order
advance_phase_wrap(s) ==
    LET order == phase_order(s.user_role)
        index == index_of(order, s.current_phase)
    IN  _set_speaker_by_phase(
            [s EXCEPT !.current_phase = order[((index + 1) % Len(order)) + 1],
                      !.turn_number = 1])

\* advance_phase stepping two phases ahead
advance_phase_skip(s) ==
    LET order == phase_order(s.user_role)
        index == index_of(order, s.current_phase)
    IN  IF index + 1 < Len(order)
        THEN _set_speaker_by_phase(
                 [s EXCEPT !.current_phase =
                               order[IF index + 3 <= Len(order)
                                     THEN index + 3 ELSE Len(order)],
                           !.turn_number = 1])
        ELSE [s EXCEPT !.current_phase = "COMPLETED"]

advance_phase(s) ==
    LET order == phase_order(s.user_role)
        index == index_of(order, s.current_phase)
    IN  IF index + 1 < Len(order)
        THEN _set_speaker_by_phase(
                 [s EXCEPT !.current_phase = order[index + 2],
                           !.turn_number = 1])
        ELSE [s EXCEPT !.current_phase = "COMPLETED"]

\* DebateState.__init__
DebateState(user_role) ==
    LET first == phase_order(user_role)[1]
    IN  [ user_role       |-> user_role,
          ai_role         |-> IF user_role = "pro" THEN "con" ELSE "pro",
          turn_number     |-> 1,
          transcript      |-> << >>,
          current_phase   |-> first,
          current_speaker |-> IF user_role = get_role_from_phase(first)
                              THEN "user" ELSE "ai" ]

\* str.capitalize on the role names
capitalize(role) ==
    CASE role = "pro" -> "Pro"
      [] role = "con" -> "Con"
      [] role = "judge" -> "Judge"
      [] OTHER -> role

log_speech_latest_only(s, speaker, role, speech_type, content) ==
    [s EXCEPT !.transcript =
        << [ speaker     |-> speaker,
             role        |-> capitalize(role),
             speech_type |-> speech_type,
             content     |-> content ] >>]

\* log_speech counting the speech as a turn of the phase
log_speech_counting(s, speaker, role, speech_type, content) ==
    [s EXCEPT !.transcript =
                  Append(@, [ speaker     |-> speaker,
                              role        |-> capitalize(role),
                              speech_type |-> speech_type,
                              content     |-> content ]),
              !.turn_number = @ + 1]

log_speech(s, speaker, role, speech_type, content) ==
    [s EXCEPT !.transcript =
        Append(@, [ speaker     |-> speaker,
                    role        |-> capitalize(role),
                    speech_type |-> speech_type,
                    content     |-> content ])]

get_expected_speech_type(s) ==
    CASE s.current_phase \in { "CROSSFIRE_1_QA", "CROSSFIRE_2_QA" }
            -> "Crossfire"
      [] s.current_phase \in { "PRO_REBUTTAL", "CON_REBUTTAL" }
            -> "Rebuttal"
      [] s.current_phase \in { "PRO_SUMMARY", "CON_SUMMARY" }
            -> "Summary"
      [] s.current_phase \in { "FINAL_FOCUS_PRO", "FINAL_FOCUS_CON" }
            -> "Final Focus"
      [] s.current_phase \in { "PRO_CONSTRUCTIVE", "CON_CONSTRUCTIVE" }
            -> "Constructive"
      [] OTHER -> "Speech"

is_ai_turn_user(s) == s.current_speaker = "user"

is_ai_turn(s) == s.current_speaker = "ai"

(***************************************************************************)
(* Strings of the vocabulary: str.lower, and the substring tests made on   *)
(* speech types                                                            *)
(***************************************************************************)
lower(str) ==
    CASE str = "Crossfire" -> "crossfire"
      [] str = "Constructive" -> "constructive"
      [] str = "Rebuttal" -> "rebuttal"
      [] str = "Summary" -> "summary"
      [] str = "Final Focus" -> "final focus"
      [] str = "Speech" -> "speech"
      [] OTHER -> str

\* `sub in str.lower()`: no word of the vocabulary contains another one
contains_lower(str, sub) == lower(str) = sub

(***************************************************************************)
(* backend/llms_logic.py: build_messages, crossfire branch                 *)
(***************************************************************************)
\* str.rfind(' '): 0-based position of the last space, -1 when none
rfind_space(text) ==
    IF \E i \in 1..Len(text) : text[i] = " "
    THEN (CHOOSE i \in 1..Len(text) :
              /\ text[i] = " "
              /\ \A j \in (i + 1)..Len(text) : text[j] # " ") - 1
    ELSE -1

summarize(text, max_length) ==
    IF Len(text) > max_length
    THEN LET short == SubSeq(text, 1, max_length)
             last_space == rfind_space(short)
         IN  IF last_space # -1
             THEN SubSeq(short, 1, last_space) \o <<".", ".", ".">>
             ELSE short \o <<".", ".", ".">>
    ELSE text

CrossfireSummaryLimit == 100

\* the backward scan that collects the crossfire context
RECURSIVE crossfire_context(_, _, _)
crossfire_context(transcript, i, context) ==
    IF i = 0 THEN context
    ELSE LET entry == transcript[i] IN
         IF contains_lower(entry.speech_type, "crossfire")
         THEN LET grown == <<entry>> \o context
              IN  IF Len(grown) >= 4 THEN grown
                  ELSE crossfire_context(transcript, i - 1, grown)
         ELSE IF /\ context = << >>
                 /\ \/ contains_lower(entry.speech_type, "constructive")
                    \/ contains_lower(entry.speech_type, "rebuttal")
         THEN IF entry.speaker = "user"
              THEN << [ speaker |-> "user",
                        content |-> summarize(entry.content,
                                              CrossfireSummaryLimit) ] >>
              ELSE context
         ELSE crossfire_context(transcript, i - 1, context)

\* build_messages raises KeyError when the emit loop reads
\* entry["speech_type"] of an entry that has no such key
build_messages_raises(s, speech_type) ==
    /\ contains_lower(speech_type, "crossfire")
    /\ LET context == crossfire_context(s.transcript,
                                        Len(s.transcript), << >>)
       IN  \E k \in 1..Len(context) :
               "speech_type" \notin DOMAIN context[k]

RebuttalSummaryLimit == 200

\* the system message; the wording of the prompt is left open
system_message == [ role |-> "system", content |-> << "system prompt" >> ]

\* "assistant" if entry["speaker"] == "ai" else "user"
role_tag(entry) == IF entry.speaker = "ai" THEN "assistant" ELSE "user"

\* the emit loop over the collected crossfire context
crossfire_emitted(context) ==
    LET kept == SelectSeq(context,
                          LAMBDA entry : lower(entry.speech_type)
                                  \in { "crossfire", "crossfire-question" })
    IN  [ k \in 1..Len(kept) |->
              [ role |-> role_tag(kept[k]), content |-> kept[k].content ] ]

\* the second loop: the latest user crossfire entry of the context, again
crossfire_reappended(context) ==
    LET users == { k \in 1..Len(context) :
                       /\ context[k].speaker = "user"
                       /\ contains_lower(context[k].speech_type,
                                         "crossfire") }
    IN  IF users = { } THEN << >>
        ELSE LET last == CHOOSE k \in users : \A j \in users : j <= k
             IN  << [ role |-> "user", content |-> context[last].content ] >>

rebuttal_context_verbatim(transcript) ==
    LET n == Len(transcript)
        first == IF n > 5 THEN n - 4 ELSE 1
    IN  [ k \in 1..(n - first + 1) |->
              LET entry == transcript[first + k - 1] IN
              [ role |-> role_tag(entry), content |-> entry.content ] ]

\* the rebuttal branch: the backward loop that stops at 5 entries
rebuttal_context(transcript) ==
    LET n == Len(transcript)
        first == IF n > 5 THEN n - 4 ELSE 1
    IN  [ k \in 1..(n - first + 1) |->
              LET entry == transcript[first + k - 1] IN
              [ role |-> role_tag(entry),
                content |-> IF contains_lower(entry.speech_type,
                                              "constructive")
                            THEN summarize(entry.content,
                                           RebuttalSummaryLimit)
                            ELSE entry.content ] ]

default_context_seven(transcript) ==
    LET n == Len(transcript)
        first == IF n > 7 THEN n - 6 ELSE 1
    IN  [ k \in 1..(n - first + 1) |->
              LET entry == transcript[first + k - 1] IN
              [ role |-> role_tag(entry), content |-> entry.content ] ]

\* the default branch: transcript[-6:]
default_context(transcript) ==
    LET n == Len(transcript)
        first == IF n > 6 THEN n - 5 ELSE 1
    IN  [ k \in 1..(n - first + 1) |->
              LET entry == transcript[first + k - 1] IN
              [ role |-> role_tag(entry), content |-> entry.content ] ]

\* build_messages(debate_state, speech_type_override): the messages it
\* returns, or the exception it raises
build_messages(s, speech_type) ==
    IF contains_lower(speech_type, "crossfire")
    THEN IF build_messages_raises(s, speech_type)
         THEN [ tag |-> "raised", error |-> "KeyError" ]
         ELSE LET context == crossfire_context(s.transcript,
                                               Len(s.transcript), << >>)
              IN  [ tag |-> "messages",
                    messages |-> << system_message >>
                                     \o crossfire_emitted(context)
                                     \o crossfire_reappended(context) ]
    ELSE IF contains_lower(speech_type, "rebuttal")
    THEN [ tag |-> "messages",
           messages |-> << system_message >>
                            \o rebuttal_context(s.transcript) ]
    ELSE [ tag |-> "messages",
           messages |-> << system_message >>
                            \o default_context(s.transcript) ]

(***************************************************************************)
(* backend/llms_logic.py: the model call and the primary/fallback policy   *)
(***************************************************************************)
PRIMARY_MODEL == "deepseek/deepseek-chat:free"
FALLBACK_MODEL == "mistralai/mistral-7b-instruct:free"

\* the sentinel generate_ai_speech returns when both attempts fail
AI_ERROR == << "AI error: Could not generate response." >>

\* the object generate_judging_feedback returns when both attempts fail
JUDGING_ERROR == [ error |-> "Failed to generate judging feedback." ]

\* Lines a streamed response may consist of:
\*   other      a line that does not start with "data: "
\*   done       "data: [DONE]"
\*   malformed  a data line json.loads or the delta lookup fails on
\*   delta      a data line carrying delta content
Line(kind, content) == [ kind |-> kind, content |-> content ]

Streams ==
    << << Line("delta", <<" ", "a">>), Line("done", << >>) >>,
       << Line("other", << >>), Line("malformed", << >>),
          Line("delta", <<"data: ", "a", " ">>), Line("done", << >>),
          Line("delta", <<"b">>) >> >>

\* line.replace("data: ", "") as it shows in the content the line carries:
\* every occurrence of "data: " goes, not only the prefix of the line
replace_data(content) == SelectSeq(content, LAMBDA ch : ch # "data: ")

\* the `async for line in response.aiter_lines()` loop of call_model
RECURSIVE accumulate(_, _, _)
accumulate(lines, i, ai_response_text) ==
    IF i > Len(lines) THEN ai_response_text
    ELSE LET line == lines[i] IN
         CASE line.kind = "other" ->
                  accumulate(lines, i + 1, ai_response_text)
           [] line.kind = "done" -> ai_response_text
           [] line.kind = "delta" ->
                  accumulate(lines, i + 1,
                             ai_response_text \o replace_data(line.content))
           [] OTHER -> accumulate(lines, i + 1, ai_response_text)

\* str.strip
RECURSIVE strip(_)
strip(text) ==
    IF text = << >> THEN text
    ELSE IF Head(text) = " " THEN strip(Tail(text))
    ELSE IF text[Len(text)] = " " THEN strip(SubSeq(text, 1, Len(text) - 1))
    ELSE text

\* what call_model returns for a response of status 200
call_model(lines) == strip(accumulate(lines, 1, << >>))

\* outcomes of one streamed attempt: status 200 with one of the streams, a
\* non-200 status, or a transport failure (httpx exception, timeout)
SpeechOutcomes ==
    { [ ok |-> TRUE, stream |-> k, failure |-> "none" ] :
          k \in 1..Len(Streams) }
    \cup { [ ok |-> FALSE, stream |-> 0, failure |-> f ] :
               f \in { "status", "transport" } }

Verdicts == { [ winner |-> "Proposition" ], [ winner |-> "Opposition" ] }

\* outcomes of one judging attempt: status 200 with content json.loads
\* accepts, a non-200 status, a transport failure, or unparsable content
JudgingOutcomes ==
    { [ ok |-> TRUE, verdict |-> v, failure |-> "none" ] : v \in Verdicts }
    \cup { [ ok |-> FALSE, verdict |-> JUDGING_ERROR, failure |-> f ] :
               f \in { "status", "transport", "json" } }

NoResult == [ tag |-> "none" ]

NoCall ==
    [ kind |-> "none", speech_type |-> "none", caller |-> "none",
      primary |-> "none", fallback |-> "none", attempts |-> << >>,
      stream |-> 0, result |-> NoResult ]

\* generate_ai_speech up to its first await: build_messages, then the
\* request to the primary model
generate_ai_speech(s, speech_type, caller) ==
    LET c == [ NoCall EXCEPT !.kind = "speech",
                             !.speech_type = speech_type,
                             !.caller = caller ]
    IN  IF build_messages_raises(s, speech_type)
        THEN [ pc |-> "raised",
               call |-> [ c EXCEPT !.result =
                              [ tag |-> "raised", error |-> "KeyError" ] ] ]
        ELSE [ pc |-> "primary",
               call |-> [ c EXCEPT !.primary = "inflight",
                                   !.attempts = << PRIMARY_MODEL >> ] ]

\* generate_ai_speech: `result = await call_model(PRIMARY_MODEL)` returned
\* or raised
speech_on_primary(c, outcome) ==
    IF outcome.ok
    THEN [ pc |-> "returned",
           call |-> [ c EXCEPT !.primary = "ok",
                               !.stream = outcome.stream,
                               !.result =
                                   [ tag |-> "text",
                                     text |-> call_model(
                                         Streams[outcome.stream]) ] ] ]
    ELSE [ pc |-> "fallback",
           call |-> [ c EXCEPT !.primary = "failed",
                               !.fallback = "inflight",
                               !.attempts = Append(@, FALLBACK_MODEL) ] ]

\* generate_ai_speech: `result = await call_model(FALLBACK_MODEL)` returned
\* or raised
\* speech_on_fallback returning the text of an accumulator never filled
speech_on_fallback_stale(c, outcome) ==
    IF outcome.ok
    THEN [ pc |-> "returned",
           call |-> [ c EXCEPT !.fallback = "ok",
                               !.stream = outcome.stream,
                               !.result = [ tag |-> "text",
                                            text |-> << >> ] ] ]
    ELSE [ pc |-> "returned",
           call |-> [ c EXCEPT !.fallback = "failed",
                               !.result =
                                   [ tag |-> "text", text |-> AI_ERROR ] ] ]

\* speech_on_fallback asking the fallback model again when it fails
speech_on_fallback_retry(c, outcome) ==
    IF outcome.ok
    THEN [ pc |-> "returned",
           call |-> [ c EXCEPT !.fallback = "ok",
                               !.stream = outcome.stream,
                               !.result =
                                   [ tag |-> "text",
                                     text |-> call_model(
                                         Streams[outcome.stream]) ] ] ]
    ELSE [ pc |-> "fallback",
           call |-> [ c EXCEPT !.fallback = "inflight",
                               !.attempts = Append(@, FALLBACK_MODEL) ] ]

speech_on_fallback(c, outcome) ==
    IF outcome.ok
    THEN [ pc |-> "returned",
           call |-> [ c EXCEPT !.fallback = "ok",
                               !.stream = outcome.stream,
                               !.result =
                                   [ tag |-> "text",
                                     text |-> call_model(
                                         Streams[outcome.stream]) ] ] ]
    ELSE [ pc |-> "returned",
           call |-> [ c EXCEPT !.fallback = "failed",
                               !.result =
                                   [ tag |-> "text", text |-> AI_ERROR ] ] ]

\* generate_judging_feedback up to its first await
generate_judging_feedback(s) ==
    [ pc |-> "primary",
      call |-> [ NoCall EXCEPT !.kind = "judgment",
                               !.caller = "judging",
                               !.primary = "inflight",
                               !.attempts = << PRIMARY_MODEL >> ] ]

judging_on_primary(c, outcome) ==
    IF outcome.ok
    THEN [ pc |-> "returned",
           call |-> [ c EXCEPT !.primary = "ok",
                               !.result = [ tag |-> "object",
                                            value |-> outcome.verdict ] ] ]
    ELSE [ pc |-> "fallback",
           call |-> [ c EXCEPT !.primary = "failed",
                               !.fallback = "inflight",
                               !.attempts = Append(@, FALLBACK_MODEL) ] ]

judging_on_fallback(c, outcome) ==
    IF outcome.ok
    THEN [ pc |-> "returned",
           call |-> [ c EXCEPT !.fallback = "ok",
                               !.result = [ tag |-> "object",
                                            value |-> outcome.verdict ] ] ]
    ELSE [ pc |-> "returned",
           call |-> [ c EXCEPT !.fallback = "failed",
                               !.result = [ tag |-> "object",
                                            value |-> JUDGING_ERROR ] ] ]

(***************************************************************************)
(* backend/main.py                                                         *)
(***************************************************************************)
\* the spellings the client sends (mic_client strips and lower-cases the
\* speech type), and one speech type the coordinator does not know
Speakers == { "user", "ai" }
Roles == { "pro", "con" }
SpeechTypeInputs ==
    { "constructive", "rebuttal", "summary", "final focus", "crossfire",
      "closing" }
UserContents == { << "u" >> }

SpeechData ==
    [ speaker : Speakers, role : Roles, speech_type : SpeechTypeInputs,
      content : UserContents ]

\* sum(1 for t in transcript if t["speech_type"].lower() == "crossfire")
crossfires(transcript) ==
    Cardinality({ i \in 1..Len(transcript) :
                      lower(transcript[i].speech_type) = "crossfire" })

map_speech_type_to_phase_late(speech_type, role, transcript) ==
    CASE speech_type = "constructive" ->
             IF role = "pro" THEN "PRO_CONSTRUCTIVE" ELSE "CON_CONSTRUCTIVE"
      [] speech_type = "rebuttal" ->
             IF role = "pro" THEN "PRO_REBUTTAL" ELSE "CON_REBUTTAL"
      [] speech_type = "summary" ->
             IF role = "pro" THEN "PRO_SUMMARY" ELSE "CON_SUMMARY"
      [] speech_type = "final focus" ->
             IF role = "pro" THEN "FINAL_FOCUS_PRO" ELSE "FINAL_FOCUS_CON"
      [] speech_type = "crossfire" ->
             IF crossfires(transcript) > 4
             THEN "CROSSFIRE_2_QA" ELSE "CROSSFIRE_1_QA"
      [] OTHER -> "None"

map_speech_type_to_phase(speech_type, role, transcript) ==
    CASE speech_type = "constructive" ->
             IF role = "pro" THEN "PRO_CONSTRUCTIVE" ELSE "CON_CONSTRUCTIVE"
      [] speech_type = "rebuttal" ->
             IF role = "pro" THEN "PRO_REBUTTAL" ELSE "CON_REBUTTAL"
      [] speech_type = "summary" ->
             IF role = "pro" THEN "PRO_SUMMARY" ELSE "CON_SUMMARY"
      [] speech_type = "final focus" ->
             IF role = "pro" THEN "FINAL_FOCUS_PRO" ELSE "FINAL_FOCUS_CON"
      [] speech_type = "crossfire" ->
             IF crossfires(transcript) >= 4
             THEN "CROSSFIRE_2_QA" ELSE "CROSSFIRE_1_QA"
      [] OTHER -> "None"

\* start_debate after `debate_session["state"] = state`
StartDebate ==
    /\ pc = "start"
    /\ IF state.user_role = "con"
       THEN LET s1 == [state EXCEPT !.current_speaker = "ai"]
                g == generate_ai_speech(s1, get_expected_speech_type(s1),
                                        "start")
            IN  /\ state' = s1
                /\ pc' = g.pc
                /\ call' = g.call
                /\ event' = "start"
       ELSE /\ state' = [state EXCEPT !.current_speaker = "user"]
            /\ pc' = "idle"
            /\ call' = NoCall
            /\ event' = "start"
    /\ UNCHANGED <<advances, turns, failures>>

\* the end_phase branch holding the session in JUDGING_PHASE
end_phase_event_held(max_transcript) ==
    /\ pc = "idle"
    /\ IF state.current_phase = "JUDGING_PHASE"
       THEN /\ state' = state
            /\ pc' = "idle"
            /\ call' = NoCall
            /\ event' = "end_phase"
       ELSE LET s1 == advance_phase(state)
                g == IF state.current_phase = "FINAL_FOCUS_CON"
                     THEN generate_judging_feedback(s1)
                     ELSE generate_ai_speech(
                              s1, get_expected_speech_type(s1), "end_phase")
            IN  IF state.current_phase = "FINAL_FOCUS_CON" \/ is_ai_turn(s1)
                THEN /\ Len(s1.transcript) < max_transcript
                     /\ state' = s1
                     /\ pc' = g.pc
                     /\ call' = g.call
                     /\ event' = "end_phase"
                ELSE /\ state' = s1
                     /\ pc' = "idle"
                     /\ call' = NoCall
                     /\ event' = "end_phase"

\* debate_socket, data["type"] == "end_phase"; the bound caps the length of
\* the transcript
end_phase_event(max_transcript) ==
    /\ pc = "idle"
    /\ IF state.current_phase = "FINAL_FOCUS_CON"
       THEN LET s1 == advance_phase(state)
                g == generate_judging_feedback(s1)
            IN  /\ state' = s1
                /\ pc' = g.pc
                /\ call' = g.call
                /\ event' = "end_phase"
       ELSE LET s1 == advance_phase(state) IN
            IF is_ai_turn(s1)
            THEN LET g == generate_ai_speech(
                              s1, get_expected_speech_type(s1), "end_phase")
                 IN  /\ Len(s1.transcript) < max_transcript
                     /\ state' = s1
                     /\ pc' = g.pc
                     /\ call' = g.call
                     /\ event' = "end_phase"
            ELSE /\ state' = s1
                 /\ pc' = "idle"
                 /\ call' = NoCall
                 /\ event' = "end_phase"

EndPhase ==
    /\ end_phase_event(MaxTranscript)
    /\ UNCHANGED <<advances, turns, failures>>

\* debate_socket, data["type"] == "speech"; the two bounds cap the number of
\* turns handled and the length of the transcript
speech_event(data, max_turns, max_transcript) ==
    /\ pc = "idle"
    /\ LET user_speech_type == lower(data.speech_type)
           role == lower(data.role)
           new_phase == map_speech_type_to_phase(user_speech_type, role,
                                                 state.transcript)
           s1 == log_speech(state, data.speaker, data.role,
                            data.speech_type, data.content)
       IN  IF new_phase = "None"
           THEN UNCHANGED vars
           ELSE IF user_speech_type = "crossfire"
           THEN LET s2 == [s1 EXCEPT
                               !.current_phase = new_phase,
                               !.current_speaker =
                                   IF data.speaker = "user"
                                   THEN "ai" ELSE "user"]
                    g == generate_ai_speech(s2, "Crossfire", "crossfire")
                IN  /\ turns < max_turns
                    /\ state' = s2
                    /\ IF is_ai_turn(s2)
                       THEN /\ Len(s2.transcript) < max_transcript
                            /\ pc' = g.pc
                            /\ call' = g.call
                            /\ event' = "speech"
                       ELSE /\ Len(s2.transcript) <= max_transcript
                            /\ pc' = "idle"
                            /\ call' = NoCall
                            /\ event' = "speech"
                    /\ turns' = turns + 1
                    /\ UNCHANGED <<advances, failures>>
           ELSE LET s2 == advance_phase(
                              [s1 EXCEPT !.current_phase = new_phase])
                    g == generate_ai_speech(
                             s2, get_expected_speech_type(s2), "speech")
                IN  /\ turns < max_turns
                    /\ state' = s2
                    /\ IF is_ai_turn(s2)
                       THEN /\ Len(s2.transcript) < max_transcript
                            /\ pc' = g.pc
                            /\ call' = g.call
                            /\ event' = "speech"
                       ELSE /\ Len(s2.transcript) <= max_transcript
                            /\ pc' = "idle"
                            /\ call' = NoCall
                            /\ event' = "speech"
                    /\ turns' = turns + 1
                    /\ UNCHANGED <<advances, failures>>

Speech(data) == speech_event(data, MaxUserTurns, MaxTranscript)

SpeechPrimaryReturnsLogging ==
    /\ pc = "primary"
    /\ call.kind = "speech"
    /\ \E outcome \in SpeechOutcomes :
           LET r == speech_on_primary(call, outcome)
           IN  /\ pc' = r.pc
               /\ call' = r.call
               /\ state' = IF outcome.ok
                           THEN log_speech(state, "ai", state.ai_role,
                                           call.speech_type,
                                           r.call.result.text)
                           ELSE state
    /\ UNCHANGED <<event, advances, turns, failures>>

\* the primary attempt of a speech call returns or fails
SpeechPrimaryReturns ==
    /\ pc = "primary"
    /\ call.kind = "speech"
    /\ \E outcome \in SpeechOutcomes :
           LET r == speech_on_primary(call, outcome)
           IN  pc' = r.pc /\ call' = r.call
    /\ UNCHANGED <<state, event, advances, turns, failures>>

\* the primary attempt of a judging call returns or fails
JudgingPrimaryReturns ==
    /\ pc = "primary"
    /\ call.kind = "judgment"
    /\ \E outcome \in JudgingOutcomes :
           LET r == judging_on_primary(call, outcome)
           IN  pc' = r.pc /\ call' = r.call
    /\ UNCHANGED <<state, event, advances, turns, failures>>

\* the primary attempt of the call in progress returns or fails
PrimaryReturns ==
    \/ SpeechPrimaryReturns
    \/ JudgingPrimaryReturns

\* the fallback attempt of a speech call returns or fails
SpeechFallbackReturns ==
    /\ pc = "fallback"
    /\ call.kind = "speech"
    /\ \E outcome \in SpeechOutcomes :
           LET r == speech_on_fallback(call, outcome)
           IN  /\ outcome.ok \/ failures < MaxFailures
               /\ pc' = r.pc
               /\ call' = r.call
               /\ failures' = IF outcome.ok THEN failures
                              ELSE failures + 1
    /\ UNCHANGED <<state, event, advances, turns>>

\* the fallback attempt of a judging call returns or fails
JudgingFallbackReturns ==
    /\ pc = "fallback"
    /\ call.kind = "judgment"
    /\ \E outcome \in JudgingOutcomes :
           LET r == judging_on_fallback(call, outcome)
           IN  /\ outcome.ok \/ failures < MaxFailures
               /\ pc' = r.pc
               /\ call' = r.call
               /\ failures' = IF outcome.ok THEN failures
                              ELSE failures + 1
    /\ UNCHANGED <<state, event, advances, turns>>

\* the fallback attempt of the call in progress returns or fails
FallbackReturns ==
    \/ SpeechFallbackReturns
    \/ JudgingFallbackReturns

\* the session after the code that follows the awaited call c in the
\* handler that made it: start_debate logs the speech and advances, the
\* branches of debate_socket log the speech, the judging branch only sends
resumed(s, c) ==
    IF c.caller = "start"
    THEN advance_phase(log_speech(s, "ai", s.ai_role, c.speech_type,
                                  c.result.text))
    ELSE IF c.caller \in { "end_phase", "crossfire", "speech" }
    THEN log_speech(s, "ai", s.ai_role, c.speech_type, c.result.text)
    ELSE s

\* Resume dropping the speech when generation reported its failure
ResumeDroppingFailure ==
    /\ pc = "returned"
    /\ pc' = "idle"
    /\ call' = NoCall
    /\ state' = IF call.kind = "speech" /\ call.result.text = AI_ERROR
                THEN state
                ELSE resumed(state, call)
    /\ UNCHANGED <<event, advances, turns, failures>>

\* the code that follows the awaited call in the handler that made it
Resume ==
    /\ pc = "returned"
    /\ pc' = "idle"
    /\ call' = NoCall
    /\ state' = resumed(state, call)
    /\ UNCHANGED <<event, advances, turns, failures>>

\* the exception of generate_ai_speech leaves debate_socket, which closes
\* the connection; the client connects again to the same session
Reconnect ==
    /\ pc = "raised"
    /\ pc' = "idle"
    /\ call' = NoCall
    /\ UNCHANGED <<state, event, advances, turns, failures>>

UserRoles == { "pro", "con" }

Init ==
    /\ \E user_role \in UserRoles : state = DebateState(user_role)
    /\ pc = "start"
    /\ call = NoCall
    /\ event = "none"
    /\ advances = 0
    /\ turns = 0
    /\ failures = 0

Next ==
    \/ StartDebate
    \/ EndPhase
    \/ \E data \in SpeechData : Speech(data)
    \/ PrimaryReturns
    \/ FallbackReturns
    \/ Resume
    \/ Reconnect

Spec == Init /\ [][Next]_vars

(***************************************************************************)
(* DebateState driven on its own: advance_phase and log_speech applied to  *)
(* a freshly constructed session                                           *)
(***************************************************************************)
AdvancePhase ==
    /\ pc = "direct"
    /\ advances < MaxAdvances
    /\ state' = advance_phase(state)
    /\ advances' = advances + 1
    /\ UNCHANGED <<pc, call, event, turns, failures>>

LogSpeech(data) ==
    /\ pc = "direct"
    /\ Len(state.transcript) < MaxLog
    /\ state' = log_speech(state, data.speaker, data.role,
                           data.speech_type, data.content)
    /\ UNCHANGED <<pc, call, event, advances, turns, failures>>

InitPhase ==
    /\ \E user_role \in UserRoles : state = DebateState(user_role)
    /\ pc = "direct"
    /\ call = NoCall
    /\ event = "none"
    /\ advances = 0
    /\ turns = 0
    /\ failures = 0

NextPhase ==
    \/ AdvancePhase
    \/ \E data \in SpeechData : LogSpeech(data)

SpecPhase == InitPhase /\ [][NextPhase]_vars

(***************************************************************************)
(* The coordinator on crossfire turns alone, with room in the transcript   *)
(* for the crossfire count to pass its threshold; the turns carry a role   *)
(* and a speech type the debate does not have as well                      *)
(***************************************************************************)
CrossfireData ==
    [ speaker : Speakers, role : Roles \cup { "judge" },
      speech_type : { "crossfire", "closing" }, content : UserContents ]

CrossfireSpeech(data) == speech_event(data, MaxCrossfire, MaxCrossfire)

NextCrossfire ==
    \/ StartDebate
    \/ \E data \in CrossfireData : CrossfireSpeech(data)
    \/ SpeechPrimaryReturns
    \/ SpeechFallbackReturns
    \/ Resume

SpecCrossfire == Init /\ [][NextCrossfire]_vars

(***************************************************************************)
(* build_messages applied to transcripts that log_speech has built         *)
(***************************************************************************)
\* a text of the given length whose first character is `label` and whose
\* words are 7 characters long
text(label, length) ==
    [ i \in 1..length |->
          IF i = 1 THEN label ELSE IF i % 8 = 0 THEN " " ELSE "x" ]

Labels == << "1", "2", "3", "4", "5", "6", "7", "8", "9" >>

\* the entries logged: a long constructive speech of the human, crossfire
\* turns of both sides, and a long summary of the AI
ContextEntries ==
    { [ speaker |-> "user", speech_type |-> "constructive", long |-> TRUE ],
      [ speaker |-> "user", speech_type |-> "crossfire", long |-> FALSE ],
      [ speaker |-> "ai", speech_type |-> "Crossfire", long |-> FALSE ],
      [ speaker |-> "ai", speech_type |-> "Summary", long |-> TRUE ] }

\* the speech types get_expected_speech_type can ask a context for
BuildTypes == { "Crossfire", "Rebuttal", "Constructive", "Speech" }

LogEntry(e) ==
    /\ pc = "context"
    /\ Len(state.transcript) < MaxEntries
    /\ state' = log_speech(
                    state, e.speaker,
                    IF e.speaker = "ai" THEN state.ai_role
                    ELSE state.user_role,
                    e.speech_type,
                    text(Labels[Len(state.transcript) + 1],
                         IF e.long THEN MaxText ELSE 1))
    /\ UNCHANGED <<pc, call, event, advances, turns, failures>>

BuildMessages(speech_type) ==
    /\ pc = "context"
    /\ pc' = "built"
    /\ call' = [ NoCall EXCEPT !.kind = "context",
                               !.speech_type = speech_type,
                               !.result = build_messages(state,
                                                         speech_type) ]
    /\ UNCHANGED <<state, event, advances, turns, failures>>

InitContext ==
    /\ state = DebateState("pro")
    /\ pc = "context"
    /\ call = NoCall
    /\ event = "none"
    /\ advances = 0
    /\ turns = 0
    /\ failures = 0

NextContext ==
    \/ \E e \in ContextEntries : LogEntry(e)
    \/ \E speech_type \in BuildTypes : BuildMessages(speech_type)

SpecContext == InitContext /\ [][NextContext]_vars

(***************************************************************************)
(* summarize applied, with the two limits build_messages uses, to the      *)
(* content of a logged speech whose length is close to the limit           *)
(***************************************************************************)
\* a text of the given length with a space at every multiple of `period`
\* (no space at all when `period` is 0)
spaced_text(length, period) ==
    [ i \in 1..length |->
          IF period > 0 /\ i % period = 0 THEN " " ELSE "x" ]

SummaryLimits == { CrossfireSummaryLimit, RebuttalSummaryLimit }

TextLengths ==
    UNION { (limit - MaxMargin)..(limit + MaxMargin) : limit \in SummaryLimits }

\* words of 7 characters, a space every 50 characters, one word only
TextPeriods == { 8, 50, 0 }

LogText(length, period) ==
    /\ pc = "text"
    /\ state.transcript = << >>
    /\ state' = log_speech(state, "user", state.user_role, "constructive",
                           spaced_text(length, period))
    /\ UNCHANGED <<pc, call, event, advances, turns, failures>>

Summarize(max_length) ==
    /\ pc = "text"
    /\ state.transcript # << >>
    /\ pc' = "summarized"
    /\ call' = [ NoCall EXCEPT
                     !.kind = "summarize",
                     !.result =
                         [ tag |-> "text",
                           max_length |-> max_length,
                           text |-> summarize(state.transcript[1].content,
                                              max_length) ] ]
    /\ UNCHANGED <<state, event, advances, turns, failures>>

InitSummarize ==
    /\ state = DebateState("pro")
    /\ pc = "text"
    /\ call = NoCall
    /\ event = "none"
    /\ advances = 0
    /\ turns = 0
    /\ failures = 0

NextSummarize ==
    \/ \E length \in TextLengths, period \in TextPeriods :
           LogText(length, period)
    \/ \E max_length \in SummaryLimits : Summarize(max_length)

SpecSummarize == InitSummarize /\ [][NextSummarize]_vars

(***************************************************************************)
(* Two connections to /ws/debate opened on the session of a human of role  *)
(* pro: each runs debate_socket on the one object debate_session holds,    *)
(* and a handler that awaits a model call lets the other one run.  Here pc *)
(* and call hold one value for each connection.                            *)
(***************************************************************************)
Connections == { "first", "second" }

\* debate_socket of connection c, data["type"] == "end_phase"
ConnEndPhase(c) ==
    /\ pc[c] = "idle"
    /\ LET s1 == advance_phase(state)
           g == IF state.current_phase = "FINAL_FOCUS_CON"
                THEN generate_judging_feedback(s1)
                ELSE IF is_ai_turn(s1)
                THEN generate_ai_speech(s1, get_expected_speech_type(s1),
                                        "end_phase")
                ELSE [ pc |-> "idle", call |-> NoCall ]
       IN  /\ g.call.kind = "speech" => Len(s1.transcript) < MaxTranscript
           /\ state' = s1
           /\ pc' = [pc EXCEPT ![c] = g.pc]
           /\ call' = [call EXCEPT ![c] = g.call]
           /\ event' = "end_phase"
    /\ UNCHANGED <<advances, turns, failures>>

\* the attempt connection c awaits returns or fails
ConnAttemptReturns(c) ==
    /\ pc[c] \in { "primary", "fallback" }
    /\ \/ /\ call[c].kind = "speech"
          /\ \E outcome \in SpeechOutcomes :
                 LET r == IF pc[c] = "primary"
                          THEN speech_on_primary(call[c], outcome)
                          ELSE speech_on_fallback(call[c], outcome)
                 IN  /\ pc' = [pc EXCEPT ![c] = r.pc]
                     /\ call' = [call EXCEPT ![c] = r.call]
       \/ /\ call[c].kind = "judgment"
          /\ \E outcome \in JudgingOutcomes :
                 LET r == IF pc[c] = "primary"
                          THEN judging_on_primary(call[c], outcome)
                          ELSE judging_on_fallback(call[c], outcome)
                 IN  /\ pc' = [pc EXCEPT ![c] = r.pc]
                     /\ call' = [call EXCEPT ![c] = r.call]
    /\ UNCHANGED <<state, event, advances, turns, failures>>

\* the code of connection c that follows the awaited call
ConnResume(c) ==
    /\ pc[c] \in { "returned", "raised" }
    /\ pc' = [pc EXCEPT ![c] = "idle"]
    /\ call' = [call EXCEPT ![c] = NoCall]
    /\ IF pc[c] = "returned" /\ call[c].kind = "speech"
       THEN state' = log_speech(state, "ai", state.ai_role,
                                call[c].speech_type, call[c].result.text)
       ELSE UNCHANGED state
    /\ UNCHANGED <<event, advances, turns, failures>>

InitConcurrent ==
    /\ state = [DebateState("pro") EXCEPT !.current_speaker = "user"]
    /\ pc = [c \in Connections |-> "idle"]
    /\ call = [c \in Connections |-> NoCall]
    /\ event = "start"
    /\ advances = 0
    /\ turns = 0
    /\ failures = 0

NextConcurrent ==
    \E c \in Connections :
        \/ ConnEndPhase(c)
        \/ ConnAttemptReturns(c)
        \/ ConnResume(c)

SpecConcurrent == InitConcurrent /\ [][NextConcurrent]_vars

(***************************************************************************)
(* The coordinator from the moment only end_phase events are delivered:    *)
(* `advances` counts these events, and stays 0 during the events of any    *)
(* type that come before                                                   *)
(***************************************************************************)
\* the turns taken before the run: the human speaks, for either side, in a
\* timed phase of the middle or the end of the debate or in a crossfire
EarlierData ==
    { data \in SpeechData :
          /\ data.speaker = "user"
          /\ data.speech_type \in { "rebuttal", "final focus", "crossfire" } }

\* a turn event delivered before the run of end_phase events
EarlierSpeech(data) ==
    /\ advances = 0
    /\ speech_event(data, MaxPrefix, MaxPrefix)

\* an end_phase event delivered before the run of end_phase events
EarlierEndPhase ==
    /\ advances = 0
    /\ end_phase_event(MaxPrefix)
    /\ UNCHANGED <<advances, turns, failures>>

\* an end_phase event of the run; each adds at most one entry
OnlyEndPhase ==
    /\ advances < MaxEndPhases
    /\ end_phase_event(MaxPrefix + MaxEndPhases)
    /\ advances' = advances + 1
    /\ UNCHANGED <<turns, failures>>

NextLive ==
    \/ StartDebate
    \/ \E data \in EarlierData : EarlierSpeech(data)
    \/ EarlierEndPhase
    \/ OnlyEndPhase
    \/ PrimaryReturns
    \/ FallbackReturns
    \/ Resume
    \/ Reconnect

\* the client keeps sending end_phase events, every awaited model call
\* returns or raises, the coroutine goes on after the await, and a client
\* whose connection was closed connects again
FairLive ==
    /\ WF_vars(StartDebate)
    /\ WF_vars(OnlyEndPhase)
    /\ WF_vars(PrimaryReturns)
    /\ WF_vars(FallbackReturns)
    /\ WF_vars(Resume)
    /\ WF_vars(Reconnect)

SpecLive == Init /\ [][NextLive]_vars /\ FairLive

(***************************************************************************)
(* Properties                                                              *)
(***************************************************************************)
order_of(s) == phase_order(s.user_role)

\* C1: k applications of advance_phase() to a fresh session (human role pro
\* or con) leave current_phase at the k-th successor of the first phase of
\* the session's order for k <= 11, so COMPLETED is reached by exactly 11
\* applications; the 12th and every later application leaves current_phase,
\* turn_number and current_speaker unchanged.
C1_AdvanceSaturatesAtCompleted ==
    /\ [](/\ state.current_phase =
                 order_of(state)[IF advances <= 11 THEN advances + 1 ELSE 12]
          /\ (state.current_phase = "COMPLETED") <=> (advances >= 11))
    /\ [][(advances >= 11 /\ advances' = advances + 1) =>
              /\ state'.current_phase = state.current_phase
              /\ state'.turn_number = state.turn_number
              /\ state'.current_speaker = state.current_speaker]_vars

\* the 12th application has been made
C1_Witness ==
    /\ pc = "direct"
    /\ advances = 12
    /\ state.current_phase = "COMPLETED"

\* C2: every step of the coordinator that changes current_phase to
\* COMPLETED starts in JUDGING_PHASE.
C2_CompletedOnlyFromJudging ==
    [][(state'.current_phase = "COMPLETED"
            /\ state.current_phase # "COMPLETED")
        => state.current_phase = "JUDGING_PHASE"]_vars

\* an end_phase event has moved the session to COMPLETED
C2_Witness ==
    /\ event = "end_phase"
    /\ state.current_phase = "COMPLETED"
    /\ turns > 0

\* C3: once current_phase is COMPLETED no coordinator event changes it.
C3_CompletedIsTerminal ==
    [][state.current_phase = "COMPLETED"
        => state'.current_phase = "COMPLETED"]_vars

speaker_for(s) ==
    IF s.current_phase \in PRO_PHASES
    THEN IF s.user_role = "pro" THEN "user" ELSE "ai"
    ELSE IF s.current_phase \in CON_PHASES
    THEN IF s.user_role = "con" THEN "user" ELSE "ai"
    ELSE "ai"

\* C4: after an event has been handled, in a PRO- or CON-tagged phase the
\* speaker is the human exactly when the human's role is the phase's tag,
\* and in JUDGING_PHASE it is the AI; outside the two crossfire phases the
\* speaker is a function of the phase (and the human's role).
C4_SpeakerDerivedFromPhase ==
    (pc = "idle" /\ ~is_crossfire_phase(state))
        => state.current_speaker = speaker_for(state)

\* a speech event has been handled that left the session in a phase of the
\* human's own side after a crossfire turn had handed the floor to the AI
C4_Witness ==
    /\ pc = "idle"
    /\ event = "speech"
    /\ turns = 2
    /\ get_role_from_phase(state.current_phase) = state.user_role
    /\ state.current_speaker = "user"
    /\ \E i \in 1..Len(state.transcript) :
           /\ state.transcript[i].speech_type = "crossfire"
           /\ state.transcript[i].speaker = "user"

\* C5: an end_phase event received in the phase that precedes JUDGING_PHASE
\* in the session's order moves the session to JUDGING_PHASE and invokes
\* generate_judgment, not generate_speech.
C5_EndPhaseBeforeJudgingJudges ==
    [][(/\ pc = "idle"
        /\ event' = "end_phase"
        /\ index_of(order_of(state), state.current_phase) = 9)
        => /\ state'.current_phase = "JUDGING_PHASE"
           /\ call'.kind = "judgment"
           /\ pc' = "primary"]_vars

\* C6: when both attempts of a judgment fail, generate_judgment returns the
\* error object and the session is in JUDGING_PHASE once the end_phase
\* event has been handled.
C6_FailedJudgmentStaysInJudging ==
    [][(/\ pc = "returned"
        /\ call.kind = "judgment"
        /\ call.primary = "failed"
        /\ call.fallback = "failed")
        => /\ call.result = [ tag |-> "object", value |-> JUDGING_ERROR ]
           /\ pc' = "idle"
           /\ state'.current_phase = "JUDGING_PHASE"]_vars

\* C7: generate_speech returns a text to its caller from every session
\* state and for every outcome of the two attempts; it never raises.
C7_GenerateSpeechNeverRaises ==
    /\ pc # "raised"
    /\ (pc = "returned" /\ call.kind = "speech") => call.result.tag = "text"

\* C8 as stated: primary failed and fallback succeeded, and the value
\* returned is the text accumulated from the fallback's stream.
C8_FallbackAccumulatedTextReturned ==
    (/\ pc = "returned"
     /\ call.kind = "speech"
     /\ call.primary = "failed"
     /\ call.fallback = "ok")
        => call.result =
               [ tag |-> "text",
                 text |-> accumulate(Streams[call.stream], 1, << >>) ]

\* C8 amended: primary failed and fallback succeeded, and the value returned
\* is the text accumulated from the fallback's stream with its leading and
\* trailing whitespace removed; nothing is raised.
C8_FallbackStrippedTextReturned ==
    /\ (/\ pc = "returned"
        /\ call.kind = "speech"
        /\ call.primary = "failed"
        /\ call.fallback = "ok")
           => call.result =
                  [ tag |-> "text",
                    text |-> strip(accumulate(Streams[call.stream],
                                              1, << >>)) ]
    /\ (call.kind = "speech" /\ call.primary = "failed") => pc # "raised"

\* the fallback has answered with the second stream after a primary failure
C8_Witness ==
    /\ pc = "returned"
    /\ call.kind = "speech"
    /\ call.primary = "failed"
    /\ call.fallback = "ok"
    /\ call.stream = 2

\* C9: one call makes at most two attempts, the primary first and the
\* fallback only once the primary has failed; a successful primary is
\* followed by no fallback, the two are never in flight together, and
\* nothing follows a failed fallback.
C9_AtMostTwoSequentialAttempts ==
    /\ call.attempts \in { << >>, << PRIMARY_MODEL >>,
                           << PRIMARY_MODEL, FALLBACK_MODEL >> }
    /\ (call.fallback # "none") <=> (Len(call.attempts) = 2)
    /\ (call.fallback # "none") => (call.primary = "failed")
    /\ (call.primary = "ok") => (call.fallback = "none")
    /\ ~(call.primary = "inflight" /\ call.fallback = "inflight")
    /\ (call.primary = "inflight") <=> (pc = "primary")
    /\ (call.fallback = "inflight") <=> (pc = "fallback")
    /\ (call.fallback = "failed") => (pc = "returned")

\* a call has returned after both of its attempts failed
C9_Witness ==
    /\ pc = "returned"
    /\ call.primary = "failed"
    /\ call.fallback = "failed"
    /\ call.attempts = << PRIMARY_MODEL, FALLBACK_MODEL >>

\* the crossfire sub-phase the coordinator files the i-th entry under
sub_phase(transcript, i) ==
    IF crossfires(SubSeq(transcript, 1, i - 1)) >= 4 THEN 2 ELSE 1

\* C10: two Crossfire entries adjacent in the transcript and of the same
\* crossfire sub-phase have different speakers.
C10_CrossfireSpeakersAlternate ==
    \A i \in 1..(Len(state.transcript) - 1) :
        (/\ lower(state.transcript[i].speech_type) = "crossfire"
         /\ lower(state.transcript[i + 1].speech_type) = "crossfire"
         /\ sub_phase(state.transcript, i)
                = sub_phase(state.transcript, i + 1))
            => state.transcript[i].speaker
                   # state.transcript[i + 1].speaker

\* the steps of the coordinator that call advance_phase(): an end_phase
\* event, and a speech event of a speech type other than crossfire
advance_step ==
    /\ pc = "idle"
    /\ \/ /\ event' = "end_phase"
          /\ state' = advance_phase(state)
       \/ \E data \in SpeechData :
              LET new_phase == map_speech_type_to_phase(
                                   lower(data.speech_type),
                                   lower(data.role), state.transcript)
              IN  /\ new_phase # "None"
                  /\ lower(data.speech_type) # "crossfire"
                  /\ turns' = turns + 1
                  /\ state' = advance_phase(
                                 [log_speech(state, data.speaker, data.role,
                                             data.speech_type, data.content)
                                     EXCEPT !.current_phase = new_phase])

\* C11: whenever a phase advance enters CROSSFIRE_1_QA or CROSSFIRE_2_QA,
\* the resulting current_speaker is the participant who did not author the
\* most recent transcript entry.
C11_CrossfireOpensWithOtherSide ==
    [][(/\ advance_step
        /\ is_crossfire_phase(state')
        /\ state'.transcript # << >>)
        => state'.current_speaker
               # state'.transcript[Len(state'.transcript)].speaker]_vars

\* the human's own phase is current and the speech event being handled is
\* the human's turn `data`, whose speech type and role match that phase
matching_turn(data) ==
    /\ pc = "idle"
    /\ get_role_from_phase(state.current_phase) = state.user_role
    /\ data.speaker = "user"
    /\ lower(data.role) = state.user_role
    /\ map_speech_type_to_phase(lower(data.speech_type), lower(data.role),
                                state.transcript) = state.current_phase
    /\ turns' = turns + 1
    /\ SubSeq(state'.transcript, 1, Len(state.transcript) + 1)
           = Append(state.transcript,
                    [ speaker |-> data.speaker,
                      role |-> capitalize(data.role),
                      speech_type |-> data.speech_type,
                      content |-> data.content ])

\* the entry the coordinator logs for the AI when the call it made returns
ai_entry(s, c) ==
    [ speaker |-> "ai", role |-> capitalize(s.ai_role),
      speech_type |-> c.speech_type, content |-> c.result.text ]

\* C12: a session with human role pro starts in PRO_CONSTRUCTIVE with the
\* human as speaker; for either human role, a turn of the human that
\* matches the human's current phase moves the session to the next phase of
\* its order with the AI as speaker and invokes generate_speech once, and
\* exactly one AI entry (the AI's role, the expected speech type of the new
\* phase) is appended directly after the human's entry.
C12_MatchingTurnHandsOverToAI ==
    /\ [][(pc = "start" /\ state.user_role = "pro" /\ pc' # "start")
            => /\ pc' = "idle"
               /\ state'.current_phase = "PRO_CONSTRUCTIVE"
               /\ state'.current_speaker = "user"
               /\ state'.transcript = << >>]_vars
    /\ [][\A data \in SpeechData :
            matching_turn(data)
                => /\ Len(state'.transcript) = Len(state.transcript) + 1
                   /\ state'.current_phase =
                          order_of(state)[index_of(order_of(state),
                                                   state.current_phase) + 2]
                   /\ state'.current_speaker = "ai"
                   /\ pc' = "primary"
                   /\ call'.kind = "speech"
                   /\ call'.caller = "speech"
                   /\ call'.attempts = << PRIMARY_MODEL >>
                   /\ call'.speech_type = get_expected_speech_type(state')
                   /\ call'.speech_type # "Speech"]_vars
    /\ [][(call.caller = "speech" /\ pc \in { "primary", "fallback" })
            => /\ state' = state
               /\ call'.caller = "speech"
               /\ call'.speech_type = call.speech_type
               /\ pc' \in { "fallback", "returned" }]_vars
    /\ [][(call.caller = "speech" /\ pc = "returned")
            => /\ state' = [state EXCEPT !.transcript =
                                Append(@, ai_entry(state, call))]
               /\ call.speech_type = get_expected_speech_type(state)
               /\ pc' = "idle"
               /\ call' = NoCall]_vars

\* the AI's constructive has been logged directly after the matching
\* constructive turn with which a human of role pro opened the debate
C12_Witness ==
    /\ pc = "idle"
    /\ state.user_role = "pro"
    /\ state.current_phase = "CON_CONSTRUCTIVE"
    /\ turns = 1
    /\ Len(state.transcript) = 2
    /\ state.transcript[1] =
           [ speaker |-> "user", role |-> "Pro",
             speech_type |-> "constructive", content |-> << "u" >> ]
    /\ state.transcript[2].speaker = "ai"
    /\ state.transcript[2].role = "Con"
    /\ state.transcript[2].speech_type = "Constructive"

\* the speech event being handled is a turn of speech type crossfire
crossfire_turn ==
    /\ pc = "idle"
    /\ turns' = turns + 1
    /\ Len(state'.transcript) = Len(state.transcript) + 1
    /\ lower(state'.transcript[Len(state'.transcript)].speech_type)
           = "crossfire"

\* C13: handling a Crossfire turn leaves turn_number and the existing
\* transcript entries unchanged, and changes current_phase only from
\* CROSSFIRE_1_QA to CROSSFIRE_2_QA when 4 Crossfire entries were logged
\* before it; otherwise current_phase is the same before and after, so only
\* current_speaker changes and entries are appended.
C13_CrossfireTurnKeepsPhase ==
    /\ [][crossfire_turn
            => /\ state'.turn_number = state.turn_number
               /\ SubSeq(state'.transcript, 1, Len(state.transcript))
                      = state.transcript
               /\ \/ state'.current_phase = state.current_phase
                  \/ /\ state.current_phase = "CROSSFIRE_1_QA"
                     /\ state'.current_phase = "CROSSFIRE_2_QA"
                     /\ crossfires(state.transcript) >= 4]_vars
    /\ [][(call.caller = "crossfire" /\ pc # "idle")
            => \/ state' = state
               \/ state' = [state EXCEPT !.transcript =
                                Append(@, ai_entry(state, call))]]_vars

\* C14: a Crossfire submission is classified CROSSFIRE_2_QA exactly when at
\* least 4 Crossfire entries are in the transcript before the submitted
\* turn is appended, and CROSSFIRE_1_QA otherwise; the 5th Crossfire
\* submission after 4 logged ones is CROSSFIRE_2_QA, and after a submission
\* classified CROSSFIRE_2_QA no Crossfire submission is classified
\* CROSSFIRE_1_QA.
C14_CrossfireClassifiedByPriorCount ==
    /\ [][crossfire_turn
            => state'.current_phase =
                   IF crossfires(state.transcript) >= 4
                   THEN "CROSSFIRE_2_QA" ELSE "CROSSFIRE_1_QA"]_vars
    /\ [][(crossfire_turn /\ crossfires(state.transcript) = 4)
            => state'.current_phase = "CROSSFIRE_2_QA"]_vars
    /\ [][(crossfire_turn /\ state.current_phase = "CROSSFIRE_2_QA")
            => state'.current_phase = "CROSSFIRE_2_QA"]_vars
    /\ [][crossfires(state'.transcript) >= crossfires(state.transcript)]_vars

\* the human's 5th-logged Crossfire turn, submitted after 4 logged ones, has
\* been classified CROSSFIRE_2_QA and answered by the AI
C14_Witness ==
    /\ pc = "idle"
    /\ state.user_role = "pro"
    /\ state.current_phase = "CROSSFIRE_2_QA"
    /\ Len(state.transcript) = 6
    /\ crossfires(state.transcript) = 6
    /\ state.transcript[5].speaker = "user"
    /\ state.transcript[5].speech_type = "crossfire"
    /\ state.transcript[6].speaker = "ai"
    /\ state.transcript[6].speech_type = "Crossfire"

\* the speech types and the roles a turn may carry
SpeechTypes ==
    { "constructive", "rebuttal", "summary", "final focus", "crossfire" }

\* C15: a turn event whose speech type is not one of Constructive,
\* Rebuttal, Summary, Final Focus, Crossfire, or whose role is neither pro
\* nor con, is rejected and leaves current_phase, turn_number,
\* current_speaker and the transcript as they were.
C15_InvalidTurnRejected ==
    [][\A data \in CrossfireData :
           (/\ \/ lower(data.speech_type) \notin SpeechTypes
               \/ lower(data.role) \notin Roles
            /\ CrossfireSpeech(data))
               => /\ state' = state
                  /\ pc' = "idle"]_vars

\* the messages of a built context that come from the transcript
derived(messages) == SelectSeq(messages, LAMBDA m : m.role # "system")

\* build_messages has returned a context for the given kind of speech
built(kind) ==
    /\ pc = "built"
    /\ call.result.tag = "messages"
    /\ CASE kind = "crossfire" ->
                contains_lower(call.speech_type, "crossfire")
         [] kind = "rebuttal" ->
                contains_lower(call.speech_type, "rebuttal")
         [] OTHER ->
                /\ ~contains_lower(call.speech_type, "crossfire")
                /\ ~contains_lower(call.speech_type, "rebuttal")

\* C16: whatever the transcript, the context built holds at most 5
\* transcript-derived messages for a Rebuttal speech, at most 6 for a
\* default speech and at most 5 for a Crossfire speech; a Rebuttal or a
\* default context is built for every transcript.
C16_ContextSizeBounded ==
    /\ built("rebuttal") => Len(derived(call.result.messages)) <= 5
    /\ built("default") => Len(derived(call.result.messages)) <= 6
    /\ built("crossfire") => Len(derived(call.result.messages)) <= 5
    /\ pc = "built" =>
           \/ call.result.tag = "messages"
           \/ contains_lower(call.speech_type, "crossfire")

\* a Crossfire context with 4 collected entries and the re-appended one has
\* been built from a transcript of more than 5 entries
C16_Witness ==
    /\ built("crossfire")
    /\ Len(state.transcript) > 5
    /\ crossfires(state.transcript) > 4
    /\ Len(derived(call.result.messages)) = 5

\* the position at which the run of consecutive crossfire entries that ends
\* the transcript starts (Len + 1 when the last entry is no crossfire entry)
tail_run_start(transcript) ==
    LET n == Len(transcript)
        starts == { i \in 1..(n + 1) :
                        \A j \in i..n :
                            contains_lower(transcript[j].speech_type,
                                           "crossfire") }
    IN  CHOOSE i \in starts : \A j \in starts : i <= j

\* C17: the entries collected for a Crossfire speech are the run of
\* consecutive Crossfire entries that ends the transcript, capped at its 4
\* most recent: no Crossfire entry that a non-crossfire entry separates
\* from the end of the transcript is in the context.
C17_CrossfireContextIsTailRun ==
    built("crossfire") =>
        LET n == Len(state.transcript)
            start == tail_run_start(state.transcript)
            first == IF n - start + 1 > 4 THEN n - 3 ELSE start
        IN  /\ crossfire_context(state.transcript, n, << >>)
                   = SubSeq(state.transcript, first, n)
            /\ \A k \in 1..Len(call.result.messages) :
                   call.result.messages[k].role # "system"
                       => \E i \in first..n :
                              state.transcript[i].content
                                  = call.result.messages[k].content

\* C18: when a Crossfire context is built from a transcript whose most
\* recent entry is a Constructive or Rebuttal entry of the human, the
\* context returned holds exactly one user-tagged message, whose content is
\* that entry's content truncated to 100 characters.
C18_OpeningCrossfireSummarisesHuman ==
    LET n == Len(state.transcript) IN
    (/\ pc = "built"
     /\ contains_lower(call.speech_type, "crossfire")
     /\ n > 0
     /\ state.transcript[n].speaker = "user"
     /\ \/ contains_lower(state.transcript[n].speech_type, "constructive")
        \/ contains_lower(state.transcript[n].speech_type, "rebuttal"))
        => /\ call.result.tag = "messages"
           /\ Cardinality({ k \in 1..Len(call.result.messages) :
                                call.result.messages[k].role = "user" }) = 1
           /\ \E k \in 1..Len(call.result.messages) :
                  call.result.messages[k] =
                      [ role |-> "user",
                        content |-> summarize(state.transcript[n].content,
                                              CrossfireSummaryLimit) ]

\* C19: when a Crossfire context is built from a transcript that holds a
\* Crossfire entry of the human, its final message is user-tagged and
\* carries the content of the most recent such entry.
C19_LatestHumanCrossfireIsLast ==
    LET humans == { i \in 1..Len(state.transcript) :
                        /\ state.transcript[i].speaker = "user"
                        /\ contains_lower(state.transcript[i].speech_type,
                                          "crossfire") }
    IN  (built("crossfire") /\ humans # { })
            => LET latest == CHOOSE i \in humans : \A j \in humans : j <= i
                   messages == call.result.messages
               IN  messages[Len(messages)] =
                       [ role |-> "user",
                         content |-> state.transcript[latest].content ]

\* `short` is `content` cut at its last word boundary within the first
\* `limit` characters (at `limit` when they hold no space), then "..."
truncated(content, short, limit) ==
    /\ Len(content) > limit
    /\ \E p \in 0..limit :
           /\ short = SubSeq(content, 1, p) \o << ".", ".", "." >>
           /\ \A i \in (p + 2)..limit : content[i] # " "
           /\ \/ p < limit /\ content[p + 1] = " "
              \/ p = limit /\ \A i \in 1..limit : content[i] # " "

\* C20: for a speech that is not a Crossfire speech the context after the
\* system message is the last min(N, len) transcript entries in
\* chronological order, N = 5 for Rebuttal and 6 otherwise, each tagged
\* assistant when its speaker is the AI and user otherwise, with the
\* content verbatim, except that for Rebuttal the content of a Constructive
\* entry is truncated to 200 characters.
C20_RecentEntriesInOrder ==
    \A kind \in { "rebuttal", "default" } :
        built(kind) =>
            LET N == IF kind = "rebuttal" THEN 5 ELSE 6
                n == Len(state.transcript)
                m == IF N < n THEN N ELSE n
                messages == call.result.messages
            IN  /\ Len(messages) = m + 1
                /\ messages[1].role = "system"
                /\ \A k \in 1..m :
                       LET entry == state.transcript[n - m + k]
                           message == messages[k + 1]
                       IN  /\ message.role = IF entry.speaker = "ai"
                                             THEN "assistant" ELSE "user"
                           /\ IF /\ kind = "rebuttal"
                                 /\ contains_lower(entry.speech_type,
                                                   "constructive")
                                 /\ Len(entry.content) > 200
                              THEN truncated(entry.content,
                                             message.content, 200)
                              ELSE message.content = entry.content

\* a Rebuttal context has been built from more than 5 entries, with a long
\* Constructive entry cut short and a long Summary entry passed verbatim
C20_Witness ==
    /\ built("rebuttal")
    /\ Len(state.transcript) > 5
    /\ \E k \in 2..Len(call.result.messages) :
           LET entry == state.transcript[Len(state.transcript) - 6 + k]
           IN  /\ lower(entry.speech_type) = "constructive"
               /\ Len(call.result.messages[k].content) < Len(entry.content)
    /\ \E k \in 2..Len(call.result.messages) :
           LET entry == state.transcript[Len(state.transcript) - 6 + k]
           IN  /\ lower(entry.speech_type) = "summary"
               /\ Len(entry.content) > 200
               /\ call.result.messages[k].content = entry.content

\* C21: a content longer than the limit L in force is summarised to a
\* strict prefix of it that ends where a space follows, then "...", of at
\* most L + 3 characters in all; a content of at most L characters comes
\* back unchanged.
C21_TruncationAtWordBoundary ==
    pc = "summarized" =>
        LET content == state.transcript[1].content
            L == call.result.max_length
            short == call.result.text
        IN  IF Len(content) > L
            THEN /\ Len(short) <= L + 3
                 /\ \E p \in 0..(Len(content) - 1) :
                        /\ short = SubSeq(content, 1, p) \o << ".", ".", "." >>
                        /\ content[p + 1] = " "
            ELSE short = content

\* C22: generate_speech and generate_judgment leave the session unchanged:
\* no step they take between the call and the return, on success or on a
\* failure of either attempt, changes current_phase, turn_number,
\* current_speaker or the transcript.
C22_GenerationLeavesSessionUnchanged ==
    [][(pc \in { "primary", "fallback" } /\ call.kind \in { "speech", "judgment" })
        => /\ state' = state
           /\ pc' \in { "fallback", "returned" }]_vars

\* a judgment has returned the error object after both attempts failed, in
\* a session whose transcript holds entries
C22_Witness ==
    /\ pc = "returned"
    /\ call.kind = "judgment"
    /\ call.primary = "failed"
    /\ call.fallback = "failed"
    /\ Len(state.transcript) > 0

\* the contents of the well-formed fragments of a stream that precede its
\* end marker, concatenated in order
RECURSIVE fragments_before_done(_)
fragments_before_done(lines) ==
    IF lines = << >> \/ Head(lines).kind = "done" THEN << >>
    ELSE IF Head(lines).kind = "delta"
    THEN Head(lines).content \o fragments_before_done(Tail(lines))
    ELSE fragments_before_done(Tail(lines))

\* C23: the text accumulated from a streamed response is the concatenation,
\* in order, of the contents of exactly the well-formed fragments received
\* before the end marker; a malformed fragment is skipped on its own: the
\* attempt still succeeds and no fallback is triggered.
C23_WellFormedFragmentsAccumulated ==
    (pc = "returned" /\ call.kind = "speech" /\ call.stream > 0)
        => /\ call.result.text
                  = strip(fragments_before_done(Streams[call.stream]))
           /\ call.primary = "ok" => call.fallback = "none"

\* C24: whenever the AI appends an entry of a speech type other than
\* Crossfire (Constructive, Rebuttal, Summary, Final Focus), the current
\* phase at that moment is tagged with the AI's own role and its speech
\* type is the entry's.
C24_AISpeaksInItsOwnPhase ==
    [][(/\ pc = "returned"
        /\ call.kind = "speech"
        /\ call.speech_type \in { "Constructive", "Rebuttal", "Summary",
                                  "Final Focus" }
        /\ Len(state'.transcript) = Len(state.transcript) + 1)
        => /\ get_role_from_phase(state.current_phase) = state.ai_role
           /\ get_expected_speech_type(state) = call.speech_type]_vars

\* C25: across the events of the coordinator the transcript only grows by
\* appending: the transcript before a step is a prefix of the transcript
\* after it, every entry unchanged.
C25_TranscriptAppendOnly ==
    [][/\ Len(state'.transcript) >= Len(state.transcript)
       /\ SubSeq(state'.transcript, 1, Len(state.transcript))
              = state.transcript]_vars

\* the AI's reply has been appended behind two entries logged before it
C25_Witness ==
    /\ pc = "idle"
    /\ Len(state.transcript) = 3
    /\ state.transcript[1].speaker = "user"
    /\ state.transcript[2].speaker = "ai"
    /\ state.transcript[3].speaker = "ai"
    /\ turns = 1

\* C26: the events of one session are handled one at a time: from the
\* receipt of an event by one connection to the end of its handling, the
\* wait for the model call and the append of the AI's speech included, no
\* handler of another connection starts, and none changes the session.
C26_EventHandlingSerialised ==
    [][\A c, d \in Connections :
           (c # d /\ pc[c] # "idle" /\ pc'[c] = pc[c])
               => /\ state' = state
                  /\ pc[d] = "idle" => pc'[d] = "idle"]_vars

\* C27: once current_phase is JUDGING_PHASE or COMPLETED, handling an
\* end_phase event invokes no generate_speech and appends no entry to the
\* transcript.
C27_NoSpeechAfterJudging ==
    /\ [][(/\ pc = "idle"
           /\ event' = "end_phase"
           /\ state.current_phase \in { "JUDGING_PHASE", "COMPLETED" })
           => /\ call'.kind # "speech"
              /\ state'.transcript = state.transcript]_vars
    /\ [][(/\ call.caller = "end_phase"
           /\ state.current_phase = "COMPLETED")
           => state'.transcript = state.transcript]_vars

\* C28: the position of current_phase in the session's phase order never
\* decreases: no speech event and no end_phase event moves the session to
\* a phase that comes earlier in its order.
C28_PhasePositionNeverDecreases ==
    [][index_of(order_of(state'), state'.current_phase)
           >= index_of(order_of(state), state.current_phase)]_vars

\* C29: when the primary and the fallback attempt of an AI turn have both
\* failed, the coordinator appends exactly one AI entry whose content is the
\* sentinel failure string; the resulting current_phase, turn_number and
\* current_speaker are those a successful generation would have left, and
\* the handler is back at its receive, ready for the next event.
C29_TotalFailureKeepsSessionGoing ==
    [][(/\ pc = "returned"
        /\ call.kind = "speech"
        /\ call.primary = "failed"
        /\ call.fallback = "failed")
           => /\ Len(state'.transcript) = Len(state.transcript) + 1
              /\ SubSeq(state'.transcript, 1, Len(state.transcript))
                     = state.transcript
              /\ state'.transcript[Len(state'.transcript)]
                     = [ speaker |-> "ai",
                         role |-> capitalize(state.ai_role),
                         speech_type |-> call.speech_type,
                         content |-> AI_ERROR ]
              /\ \A k \in 1..Len(Streams) :
                     LET succeeded ==
                             resumed(state,
                                     [ call EXCEPT !.result =
                                           [ tag |-> "text",
                                             text |-> call_model(
                                                 Streams[k]) ] ])
                     IN  /\ state'.current_phase = succeeded.current_phase
                         /\ state'.turn_number = succeeded.turn_number
                         /\ state'.current_speaker
                                = succeeded.current_speaker
              /\ pc' = "idle"]_vars

C29_Witness ==
    /\ pc = "idle"
    /\ failures = 1
    /\ event = "speech"
    /\ Len(state.transcript) >= 2
    /\ state.transcript[Len(state.transcript)].speaker = "ai"
    /\ state.transcript[Len(state.transcript)].content = AI_ERROR
    /\ state.transcript[Len(state.transcript)].speech_type # "Crossfire"

\* C30: once only end_phase events are delivered and every model call
\* returns or fails, current_phase becomes COMPLETED for good: it is
\* COMPLETED when 11 such events have been handled, whatever the state the
\* run of events began in, and a further end_phase event leaves it COMPLETED.
C30_EndPhasesReachCompleted ==
    /\ <>[](state.current_phase = "COMPLETED")
    /\ [](advances >= 11 => state.current_phase = "COMPLETED")
    /\ [][(advances >= 1 /\ state.current_phase = "COMPLETED")
             => state'.current_phase = "COMPLETED"]_vars

C30_Witness ==
    /\ advances = MaxEndPhases
    /\ pc = "idle"
    /\ turns = 1
    /\ state.current_phase = "COMPLETED"
    /\ state.transcript[Len(state.transcript)].speech_type = "Speech"

\* C31: turn_number is 1 in every reachable state: it is 1 at creation,
\* every phase advance sets it to 1, and no speech submission, crossfire
\* turn, AI speech or end_phase event increments it.
C31_TurnNumberAlwaysOne == state.turn_number = 1

C31_Witness ==
    /\ pc = "idle"
    /\ event = "end_phase"
    /\ turns = MaxUserTurns
    /\ Len(state.transcript) = MaxTranscript
    /\ \E i, j \in 1..Len(state.transcript) :
           /\ lower(state.transcript[i].speech_type) = "crossfire"
           /\ state.transcript[i].speaker = "user"
           /\ state.transcript[j].speaker = "ai"
           /\ state.transcript[j].speech_type = "Crossfire"
    /\ state.turn_number = 1

====
